---- MODULE Spec2Model ----
(***************************************************************************)
(* Model of the dispatcher's broker facade                                 *)
(* (offchain/dispatcher/src/machine/rollups_broker.rs).                    *)
(*                                                                         *)
(* The inputs stream and the claims stream are sequences of events; the   *)
(* id the stream assigns to an event is its position, INITIAL_ID is the    *)
(* token before the first position.  A facade owns two tokio mutexes       *)
(* (broker, last_claim_id); callers are tasks that run one facade          *)
(* operation at a time, one step per await point or lock hand-over.        *)
(* The domain input's sender, block, payload and tx_hash are copied        *)
(* verbatim into the event and take no part in sequencing: they are not    *)
(* represented.                                                            *)
(***************************************************************************)
EXTENDS Integers, Sequences, FiniteSets, TLC

\* Bounds of the model.
MaxInputs == 3
MaxClaims == 1
MaxIndex == 2
MaxRestarts == 1
MaxDrain == 3
MaxForeign == 2

INITIAL_ID == 0

Facades == {"f1", "f2"}
Tasks == {"t1", "t2"}
NoTask == "none"

VARIABLES
    inputs,         \* the inputs stream: Seq of Event<RollupsInput>
    claims,         \* the claims stream: Seq of Event<RollupsClaim>
    broker,         \* facade -> holder of the Mutex<Broker>
    cursor,         \* facade -> holder of the Mutex<String> last_claim_id
    last_claim_id,  \* facade -> value inside the last_claim_id mutex
    facade,         \* task -> the facade instance it calls into
    pc,             \* task -> position in the running operation
    op,             \* task -> operation being run
    arg,            \* task -> input_index / inputs_sent_count argument
    status,         \* task -> local `status` (Option as a sequence)
    event,          \* task -> local `event` (Option as a sequence)
    ret,            \* task -> value the operation returned
    peeked,         \* history: task -> length of the stream at its peek / read
    appended,       \* history: task -> events its running call has appended
    log,            \* history: for each input event, the call that wrote it
    instance,       \* history: facade -> how many times it was constructed anew
    delivered       \* history: facade -> claims next_claim returned, in order

vars == <<inputs, claims, broker, cursor, last_claim_id, facade, pc, op, arg,
          status, event, ret, peeked, appended, log, instance, delivered>>

----------------------------------------------------------------------------
\* The broker capability (rollups_events::Broker).

peek_latest(stream) ==
    IF stream = <<>> THEN <<>> ELSE <<stream[Len(stream)]>>

produce(stream, payload) ==
    Append(stream, [id |-> Len(stream) + 1, payload |-> payload])

consume_nonblocking(stream, id) ==
    LET later == {i \in 1..Len(stream) : stream[i].id > id}
    IN  IF later = {} THEN <<>>
        ELSE <<stream[CHOOSE i \in later : \A j \in later : i <= j]>>

----------------------------------------------------------------------------
\* Conversions and builders.

RollupStatusDefault ==
    [inputs_sent_count |-> 0, last_event_is_finish_epoch |-> FALSE]

\* Variant of RollupStatusFrom with the two match arms' flags exchanged.
RollupStatusFromFlagSwapped(payload) ==
    IF payload.data.tag = "AdvanceStateInput"
    THEN [inputs_sent_count |-> payload.inputs_sent_count,
          last_event_is_finish_epoch |-> TRUE]
    ELSE [inputs_sent_count |-> payload.inputs_sent_count,
          last_event_is_finish_epoch |-> FALSE]

\* Variant of RollupStatusFrom whose FinishEpoch arm starts the count of the
\* next epoch at zero.
RollupStatusFromFinishZero(payload) ==
    IF payload.data.tag = "AdvanceStateInput"
    THEN [inputs_sent_count |-> payload.inputs_sent_count,
          last_event_is_finish_epoch |-> FALSE]
    ELSE [inputs_sent_count |-> 0,
          last_event_is_finish_epoch |-> TRUE]

RollupStatusFrom(payload) ==
    IF payload.data.tag = "AdvanceStateInput"
    THEN [inputs_sent_count |-> payload.inputs_sent_count,
          last_event_is_finish_epoch |-> FALSE]
    ELSE [inputs_sent_count |-> payload.inputs_sent_count,
          last_event_is_finish_epoch |-> TRUE]

\* Variant of BrokerStreamStatusFromEvent whose FinishEpoch arm keeps the
\* epoch of the event.
BrokerStreamStatusFromEventSameEpoch(e) ==
    [id |-> e.id,
     epoch_number |-> e.payload.epoch_index,
     status |-> RollupStatusFrom(e.payload)]

BrokerStreamStatusFromEvent(e) ==
    IF e.payload.data.tag = "AdvanceStateInput"
    THEN [id |-> e.id,
          epoch_number |-> e.payload.epoch_index,
          status |-> RollupStatusFrom(e.payload)]
    ELSE [id |-> e.id,
          epoch_number |-> e.payload.epoch_index + 1,
          status |-> RollupStatusFrom(e.payload)]

BrokerStreamStatusFrom(opt) ==
    IF opt # <<>> THEN BrokerStreamStatusFromEvent(opt[1])
    ELSE [id |-> INITIAL_ID,
          epoch_number |-> 0,
          status |-> RollupStatusDefault]

\* Variant of build_next_input that links every event to the beginning.
build_next_input_unlinked(s) ==
    [parent_id |-> INITIAL_ID,
     epoch_index |-> s.epoch_number,
     inputs_sent_count |-> s.status.inputs_sent_count + 1,
     data |-> [tag |-> "AdvanceStateInput",
               metadata |-> [epoch_index |-> 0,
                             input_index |-> s.status.inputs_sent_count]]]

build_next_input(s) ==
    [parent_id |-> s.id,
     epoch_index |-> s.epoch_number,
     inputs_sent_count |-> s.status.inputs_sent_count + 1,
     data |-> [tag |-> "AdvanceStateInput",
               metadata |-> [epoch_index |-> 0,
                             input_index |-> s.status.inputs_sent_count]]]

\* Variant of build_next_finish_epoch that starts the count again at 0.
build_next_finish_epoch_reset(s) ==
    [parent_id |-> s.id,
     epoch_index |-> s.epoch_number,
     inputs_sent_count |-> 0,
     data |-> [tag |-> "FinishEpoch"]]

\* Variant of build_next_finish_epoch that counts the event as an input.
build_next_finish_epoch_counted(s) ==
    [parent_id |-> s.id,
     epoch_index |-> s.epoch_number,
     inputs_sent_count |-> s.status.inputs_sent_count + 1,
     data |-> [tag |-> "FinishEpoch"]]

\* Variant of build_next_finish_epoch that numbers the FinishEpoch event
\* with the epoch it opens.
build_next_finish_epoch_opening(s) ==
    [parent_id |-> s.id,
     epoch_index |-> s.epoch_number + 1,
     inputs_sent_count |-> s.status.inputs_sent_count,
     data |-> [tag |-> "FinishEpoch"]]

build_next_finish_epoch(s) ==
    [parent_id |-> s.id,
     epoch_index |-> s.epoch_number,
     inputs_sent_count |-> s.status.inputs_sent_count,
     data |-> [tag |-> "FinishEpoch"]]

\* Variant of input_sanity_check that compares the event with itself
\* instead of with the caller's input_index.
input_sanity_check_self(ev, input_index) ==
    /\ ev.data.tag = "AdvanceStateInput"
    /\ ev.inputs_sent_count = ev.data.metadata.input_index + 1
    /\ ev.data.metadata.epoch_index = 0

input_sanity_check(ev, input_index) ==
    /\ ev.inputs_sent_count = input_index + 1
    /\ ev.data.tag = "AdvanceStateInput" /\ ev.data.metadata.epoch_index = 0
    /\ ev.data.tag = "AdvanceStateInput"
       /\ ev.data.metadata.input_index = input_index

\* Variant of epoch_sanity_check that keeps only the variant assertion.
epoch_sanity_check_tag_only(ev, inputs_sent_count) ==
    ev.data.tag = "FinishEpoch"

\* Variant of epoch_sanity_check that refuses to close an epoch while no
\* input has been sent.
epoch_sanity_check_nonempty(ev, inputs_sent_count) ==
    /\ ev.inputs_sent_count = inputs_sent_count
    /\ ev.data.tag = "FinishEpoch"
    /\ inputs_sent_count > 0

epoch_sanity_check(ev, inputs_sent_count) ==
    /\ ev.inputs_sent_count = inputs_sent_count
    /\ ev.data.tag = "FinishEpoch"

RollupClaimFrom(e) ==
    [hash |-> e.payload.claim, number |-> e.payload.epoch_index]

\* Variant of broker_status that derives inputs_sent_count by counting the
\* AdvanceStateInput entries of the stream instead of reading the latest one.
broker_status_counted(stream) ==
    LET latest == BrokerStreamStatusFrom(peek_latest(stream))
        advances == {i \in 1..Len(stream) :
                        stream[i].payload.data.tag = "AdvanceStateInput"}
    IN  [latest EXCEPT !.status.inputs_sent_count = Cardinality(advances)]

broker_status(stream) == BrokerStreamStatusFrom(peek_latest(stream))

----------------------------------------------------------------------------
NoRet == [tag |-> "None", val |-> <<>>]
Ok(v) == [tag |-> "Ok", val |-> v]
Err(e) == [tag |-> e, val |-> <<>>]

WriteOps == {"enqueue_input", "finish_epoch"}

\* Calls that have started a write and may still append.
InFlightWrites ==
    Cardinality({t \in Tasks : op[t] \in WriteOps
                               /\ pc[t] \notin {"idle", "done", "panicked"}})

Init ==
    /\ inputs = <<>>
    /\ claims = <<>>
    /\ broker = [f \in Facades |-> NoTask]
    /\ cursor = [f \in Facades |-> NoTask]
    /\ last_claim_id = [f \in Facades |-> INITIAL_ID]
    /\ facade \in {[t \in Tasks |-> "f1"],
                   [t \in Tasks |-> IF t = "t1" THEN "f1" ELSE "f2"]}
    /\ pc = [t \in Tasks |-> "idle"]
    /\ op = [t \in Tasks |-> "none"]
    /\ arg = [t \in Tasks |-> 0]
    /\ status = [t \in Tasks |-> <<>>]
    /\ event = [t \in Tasks |-> <<>>]
    /\ ret = [t \in Tasks |-> NoRet]
    /\ peeked = [t \in Tasks |-> 0]
    /\ appended = [t \in Tasks |-> 0]
    /\ log = <<>>
    /\ instance = [f \in Facades |-> 0]
    /\ delivered = [f \in Facades |-> <<>>]

\* One facade instance, the only writer of the inputs stream, with two
\* concurrent callers.
InitSingle ==
    /\ Init
    /\ facade = [t \in Tasks |-> "f1"]

\* Two facade instances (two dispatcher processes) on the same streams, one
\* caller each.
InitTwoFacades ==
    /\ Init
    /\ facade = [t \in Tasks |-> IF t = "t1" THEN "f1" ELSE "f2"]

----------------------------------------------------------------------------
\* Acquiring and releasing the Mutex<Broker> of the caller's facade.

\* Variant of LockBroker that does not wait for the holder to release.
LockBrokerNoWait(t, from, to) ==
    /\ pc[t] = from
    /\ broker' = [broker EXCEPT ![facade[t]] = t]
    /\ pc' = [pc EXCEPT ![t] = to]
    /\ UNCHANGED <<inputs, claims, cursor, last_claim_id, facade, op, arg,
                   status, event, ret, peeked, appended, log, instance,
                   delivered>>

LockBroker(t, from, to) ==
    /\ pc[t] = from
    /\ broker[facade[t]] = NoTask
    /\ broker' = [broker EXCEPT ![facade[t]] = t]
    /\ pc' = [pc EXCEPT ![t] = to]
    /\ UNCHANGED <<inputs, claims, cursor, last_claim_id, facade, op, arg,
                   status, event, ret, peeked, appended, log, instance,
                   delivered>>

UnlockBroker(t) == broker' = [broker EXCEPT ![facade[t]] = NoTask]

----------------------------------------------------------------------------
\* status()

CallStatus(t) ==
    /\ pc[t] = "idle"
    /\ pc' = [pc EXCEPT ![t] = "status_lock"]
    /\ op' = [op EXCEPT ![t] = "status"]
    /\ arg' = [arg EXCEPT ![t] = 0]
    /\ UNCHANGED <<inputs, claims, broker, cursor, last_claim_id, facade,
                   status, event, ret, peeked, appended, log, instance,
                   delivered>>

StatusLock(t) == LockBroker(t, "status_lock", "status_peek")

\* Variant of StatusPeek that also needs the last_claim_id lock while it
\* holds the connection: the two locks taken in the opposite order.
StatusPeekNeedsCursor(t) ==
    /\ pc[t] = "status_peek"
    /\ cursor[facade[t]] = NoTask
    /\ \/ /\ ret' = [ret EXCEPT ![t] = Ok(<<broker_status(inputs).status>>)]
          /\ peeked' = [peeked EXCEPT ![t] = Len(inputs)]
       \/ /\ ret' = [ret EXCEPT ![t] = Err("PeekInputError")]
          /\ UNCHANGED peeked
    /\ UnlockBroker(t)
    /\ pc' = [pc EXCEPT ![t] = "done"]
    /\ UNCHANGED <<inputs, claims, cursor, last_claim_id, facade, op, arg,
                   status, event, appended, log, instance,
                   delivered>>

StatusPeek(t) ==
    /\ pc[t] = "status_peek"
    /\ \/ /\ ret' = [ret EXCEPT ![t] = Ok(<<broker_status(inputs).status>>)]
          /\ peeked' = [peeked EXCEPT ![t] = Len(inputs)]
       \/ /\ ret' = [ret EXCEPT ![t] = Err("PeekInputError")]
          /\ UNCHANGED peeked
    /\ UnlockBroker(t)
    /\ pc' = [pc EXCEPT ![t] = "done"]
    /\ UNCHANGED <<inputs, claims, cursor, last_claim_id, facade, op, arg,
                   status, event, appended, log, instance,
                   delivered>>

----------------------------------------------------------------------------
\* enqueue_input(input_index, input)

CallEnqueueInput(t) ==
    /\ pc[t] = "idle"
    /\ Len(inputs) + InFlightWrites < MaxInputs
    /\ \E i \in 0..MaxIndex : arg' = [arg EXCEPT ![t] = i]
    /\ pc' = [pc EXCEPT ![t] = "enqueue_lock"]
    /\ op' = [op EXCEPT ![t] = "enqueue_input"]
    /\ UNCHANGED <<inputs, claims, broker, cursor, last_claim_id, facade,
                   status, event, ret, peeked, appended, log, instance,
                   delivered>>

EnqueueLock(t) == LockBroker(t, "enqueue_lock", "enqueue_peek")

\* The position an instance would hold if it kept it in memory: that of the
\* last entry it wrote itself, the initial one while it has written none.
CachedStatus(f) ==
    LET own == {i \in 1..Len(inputs) :
                   log[i].facade = f /\ log[i].instance = instance[f]}
    IN  IF own = {} THEN BrokerStreamStatusFrom(<<>>)
        ELSE BrokerStreamStatusFromEvent(
                 inputs[CHOOSE i \in own : \A j \in own : j <= i])

\* Variant of WritePeek that trusts the position kept in memory instead of
\* the entry it peeked.
WritePeekCached(t, from, to) ==
    /\ pc[t] = from
    /\ \/ /\ status' = [status EXCEPT ![t] = <<CachedStatus(facade[t])>>]
          /\ peeked' = [peeked EXCEPT ![t] = Len(inputs)]
          /\ pc' = [pc EXCEPT ![t] = to]
          /\ UNCHANGED <<ret, broker>>
       \/ /\ ret' = [ret EXCEPT ![t] = Err("PeekInputError")]
          /\ UnlockBroker(t)
          /\ pc' = [pc EXCEPT ![t] = "done"]
          /\ UNCHANGED <<status, peeked>>
    /\ UNCHANGED <<inputs, claims, cursor, last_claim_id, facade, op, arg,
                   event, appended, log, instance,
                   delivered>>

\* let status = self.broker_status(&mut broker).await?;
WritePeek(t, from, to) ==
    /\ pc[t] = from
    /\ \/ /\ status' = [status EXCEPT ![t] = <<broker_status(inputs)>>]
          /\ peeked' = [peeked EXCEPT ![t] = Len(inputs)]
          /\ pc' = [pc EXCEPT ![t] = to]
          /\ UNCHANGED <<ret, broker>>
       \/ /\ ret' = [ret EXCEPT ![t] = Err("PeekInputError")]
          /\ UnlockBroker(t)
          /\ pc' = [pc EXCEPT ![t] = "done"]
          /\ UNCHANGED <<status, peeked>>
    /\ UNCHANGED <<inputs, claims, cursor, last_claim_id, facade, op, arg,
                   event, appended, log, instance,
                   delivered>>

EnqueuePeek(t) == WritePeek(t, "enqueue_peek", "enqueue_check")

\* Build the event and run the sanity check; a failed assertion panics and
\* the unwinding drops the broker guard.
\* Variant of WriteCheck that publishes the event before it validates it.
WriteCheckAfterProduce(t, from, to, built, passes) ==
    /\ pc[t] = from
    /\ IF passes
       THEN /\ event' = [event EXCEPT ![t] = <<built>>]
            /\ pc' = [pc EXCEPT ![t] = to]
            /\ UNCHANGED <<ret, broker, status, inputs, appended, log>>
       ELSE /\ inputs' = produce(inputs, built)
            /\ log' = Append(log, [task |-> t, facade |-> facade[t],
                                   op |-> op[t], arg |-> arg[t],
                                   peeked |-> peeked[t],
                                 instance |-> instance[facade[t]]])
            /\ appended' = [appended EXCEPT ![t] = @ + 1]
            /\ pc' = [pc EXCEPT ![t] = "panicked"]
            /\ ret' = [ret EXCEPT ![t] = Err("Panic")]
            /\ status' = [status EXCEPT ![t] = <<>>]
            /\ UnlockBroker(t)
            /\ UNCHANGED event
    /\ UNCHANGED <<claims, cursor, last_claim_id, facade, op, arg, peeked,
                   instance, delivered>>

WriteCheck(t, from, to, built, passes) ==
    /\ pc[t] = from
    /\ IF passes
       THEN /\ event' = [event EXCEPT ![t] = <<built>>]
            /\ pc' = [pc EXCEPT ![t] = to]
            /\ UNCHANGED <<ret, broker, status>>
       ELSE /\ pc' = [pc EXCEPT ![t] = "panicked"]
            /\ ret' = [ret EXCEPT ![t] = Err("Panic")]
            /\ status' = [status EXCEPT ![t] = <<>>]
            /\ UnlockBroker(t)
            /\ UNCHANGED event
    /\ UNCHANGED <<inputs, claims, cursor, last_claim_id, facade, op, arg,
                   peeked, appended, log, instance,
                   delivered>>

EnqueueCheck(t) ==
    LET built == build_next_input(status[t][1])
    IN  WriteCheck(t, "enqueue_check", "enqueue_produce", built,
                   input_sanity_check(built, arg[t]))

\* broker.produce(&self.inputs_stream, event).await.context(..)?
\* Variant of WriteProduce that sends the event again when the first send
\* reports a failure; the first send may have reached the stream.
WriteProduceRetry(t, from, error) ==
    /\ pc[t] = from
    /\ LET entry == [task |-> t, facade |-> facade[t],
                     op |-> op[t], arg |-> arg[t],
                     peeked |-> peeked[t],
                     instance |-> instance[facade[t]]]
       IN  \/ /\ inputs' = produce(inputs, event[t][1])
              /\ log' = Append(log, entry)
              /\ appended' = [appended EXCEPT ![t] = @ + 1]
              /\ ret' = [ret EXCEPT ![t] = Ok(<<>>)]
           \/ /\ inputs' = produce(produce(inputs, event[t][1]), event[t][1])
              /\ log' = Append(Append(log, entry), entry)
              /\ appended' = [appended EXCEPT ![t] = @ + 2]
              /\ ret' = [ret EXCEPT ![t] = Ok(<<>>)]
           \/ /\ ret' = [ret EXCEPT ![t] = Err(error)]
              /\ UNCHANGED <<inputs, appended, log>>
    /\ status' = [status EXCEPT ![t] = <<>>]
    /\ event' = [event EXCEPT ![t] = <<>>]
    /\ UnlockBroker(t)
    /\ pc' = [pc EXCEPT ![t] = "done"]
    /\ UNCHANGED <<claims, cursor, last_claim_id, facade, op, arg, peeked,
                   instance, delivered>>

WriteProduce(t, from, error) ==
    /\ pc[t] = from
    /\ \/ /\ inputs' = produce(inputs, event[t][1])
          /\ log' = Append(log, [task |-> t, facade |-> facade[t],
                                 op |-> op[t], arg |-> arg[t],
                                 peeked |-> peeked[t],
                                 instance |-> instance[facade[t]]])
          /\ appended' = [appended EXCEPT ![t] = @ + 1]
          /\ ret' = [ret EXCEPT ![t] = Ok(<<>>)]
       \/ /\ ret' = [ret EXCEPT ![t] = Err(error)]
          /\ UNCHANGED <<inputs, appended, log>>
    /\ status' = [status EXCEPT ![t] = <<>>]
    /\ event' = [event EXCEPT ![t] = <<>>]
    /\ UnlockBroker(t)
    /\ pc' = [pc EXCEPT ![t] = "done"]
    /\ UNCHANGED <<claims, cursor, last_claim_id, facade, op, arg, peeked,
                   instance, delivered>>

EnqueueProduce(t) == WriteProduce(t, "enqueue_produce", "ProduceInputError")

----------------------------------------------------------------------------
\* finish_epoch(inputs_sent_count)

CallFinishEpoch(t) ==
    /\ pc[t] = "idle"
    /\ Len(inputs) + InFlightWrites < MaxInputs
    /\ \E n \in 0..MaxIndex : arg' = [arg EXCEPT ![t] = n]
    /\ pc' = [pc EXCEPT ![t] = "finish_lock"]
    /\ op' = [op EXCEPT ![t] = "finish_epoch"]
    /\ UNCHANGED <<inputs, claims, broker, cursor, last_claim_id, facade,
                   status, event, ret, peeked, appended, log, instance,
                   delivered>>

FinishLock(t) == LockBroker(t, "finish_lock", "finish_peek")

FinishPeek(t) == WritePeek(t, "finish_peek", "finish_check")

FinishCheck(t) ==
    LET built == build_next_finish_epoch(status[t][1])
    IN  WriteCheck(t, "finish_check", "finish_produce", built,
                   epoch_sanity_check(built, arg[t]))

FinishProduce(t) == WriteProduce(t, "finish_produce", "ProduceFinishError")

----------------------------------------------------------------------------
\* next_claim()

CallNextClaim(t) ==
    /\ pc[t] = "idle"
    /\ pc' = [pc EXCEPT ![t] = "next_claim_lock"]
    /\ op' = [op EXCEPT ![t] = "next_claim"]
    /\ arg' = [arg EXCEPT ![t] = 0]
    /\ UNCHANGED <<inputs, claims, broker, cursor, last_claim_id, facade,
                   status, event, ret, peeked, appended, log, instance,
                   delivered>>

\* Variant of NextClaimLock that does not wait for the holder to release.
NextClaimLockNoWait(t) ==
    /\ pc[t] = "next_claim_lock"
    /\ cursor' = [cursor EXCEPT ![facade[t]] = t]
    /\ pc' = [pc EXCEPT ![t] = "claim_lock"]
    /\ UNCHANGED <<inputs, claims, broker, last_claim_id, facade, op, arg,
                   status, event, ret, peeked, appended, log, instance,
                   delivered>>

\* let mut last_id = self.last_claim_id.lock().await;
NextClaimLock(t) ==
    /\ pc[t] = "next_claim_lock"
    /\ cursor[facade[t]] = NoTask
    /\ cursor' = [cursor EXCEPT ![facade[t]] = t]
    /\ pc' = [pc EXCEPT ![t] = "claim_lock"]
    /\ UNCHANGED <<inputs, claims, broker, last_claim_id, facade, op, arg,
                   status, event, ret, peeked, appended, log, instance,
                   delivered>>

\* claim(): let mut broker = self.broker.lock().await;
ClaimLock(t) == LockBroker(t, "claim_lock", "claim_consume")

\* claim(): consume_nonblocking, then the broker guard is dropped on return;
\* an error propagates through `?` in next_claim and drops the cursor guard.
\* Variant of ClaimConsume in which the cursor guard is given up as soon as
\* last_claim_id has been used for the read.
ClaimConsumeDropsCursorLock(t) ==
    /\ pc[t] = "claim_consume"
    /\ \/ /\ event' = [event EXCEPT ![t] =
                 <<consume_nonblocking(claims, last_claim_id[facade[t]])>>]
          /\ peeked' = [peeked EXCEPT ![t] = Len(claims)]
          /\ pc' = [pc EXCEPT ![t] = "next_claim_match"]
          /\ UNCHANGED ret
       \/ /\ ret' = [ret EXCEPT ![t] = Err("ConsumeClaimError")]
          /\ pc' = [pc EXCEPT ![t] = "done"]
          /\ UNCHANGED <<event, peeked>>
    /\ cursor' = [cursor EXCEPT ![facade[t]] = NoTask]
    /\ UnlockBroker(t)
    /\ UNCHANGED <<inputs, claims, last_claim_id, facade, op, arg, status,
                   appended, log, instance, delivered>>

\* Variant of ClaimConsume that moves the cursor past the entry it tried to
\* read even when the read fails.
ClaimConsumeAdvanceOnError(t) ==
    /\ pc[t] = "claim_consume"
    /\ \/ /\ event' = [event EXCEPT ![t] =
                 <<consume_nonblocking(claims, last_claim_id[facade[t]])>>]
          /\ peeked' = [peeked EXCEPT ![t] = Len(claims)]
          /\ pc' = [pc EXCEPT ![t] = "next_claim_match"]
          /\ UNCHANGED <<ret, cursor, last_claim_id>>
       \/ /\ ret' = [ret EXCEPT ![t] = Err("ConsumeClaimError")]
          /\ cursor' = [cursor EXCEPT ![facade[t]] = NoTask]
          /\ pc' = [pc EXCEPT ![t] = "done"]
          /\ last_claim_id' = [last_claim_id EXCEPT ![facade[t]] =
                 IF @ < Len(claims) THEN @ + 1 ELSE @]
          /\ UNCHANGED <<event, peeked>>
    /\ UnlockBroker(t)
    /\ UNCHANGED <<inputs, claims, facade, op, arg, status,
                   appended, log, instance, delivered>>

ClaimConsume(t) ==
    /\ pc[t] = "claim_consume"
    /\ \/ /\ event' = [event EXCEPT ![t] =
                 <<consume_nonblocking(claims, last_claim_id[facade[t]])>>]
          /\ peeked' = [peeked EXCEPT ![t] = Len(claims)]
          /\ pc' = [pc EXCEPT ![t] = "next_claim_match"]
          /\ UNCHANGED <<ret, cursor>>
       \/ /\ ret' = [ret EXCEPT ![t] = Err("ConsumeClaimError")]
          /\ cursor' = [cursor EXCEPT ![facade[t]] = NoTask]
          /\ pc' = [pc EXCEPT ![t] = "done"]
          /\ UNCHANGED <<event, peeked>>
    /\ UnlockBroker(t)
    /\ UNCHANGED <<inputs, claims, last_claim_id, facade, op, arg, status,
                   appended, log, instance, delivered>>

\* match: Some(event) => { *last_id = event.id; Ok(Some(event.into())) },
\*        None => Ok(None); the cursor guard is dropped on return.
\* Variant of NextClaimMatch that moves the cursor to the newest entry of the
\* claims stream instead of the entry it read.
NextClaimMatchSkipToTail(t) ==
    /\ pc[t] = "next_claim_match"
    /\ LET found == event[t][1]
           f == facade[t]
       IN  IF found # <<>>
           THEN /\ last_claim_id' = [last_claim_id EXCEPT ![f] = Len(claims)]
                /\ ret' = [ret EXCEPT ![t] = Ok(<<RollupClaimFrom(found[1])>>)]
                /\ delivered' = [delivered EXCEPT ![f] =
                       Append(@, [instance |-> instance[f],
                                  claim |-> RollupClaimFrom(found[1])])]
           ELSE /\ ret' = [ret EXCEPT ![t] = Ok(<<>>)]
                /\ UNCHANGED <<last_claim_id, delivered>>
    /\ event' = [event EXCEPT ![t] = <<>>]
    /\ cursor' = [cursor EXCEPT ![facade[t]] = NoTask]
    /\ pc' = [pc EXCEPT ![t] = "done"]
    /\ UNCHANGED <<inputs, claims, broker, facade, op, arg, status, peeked,
                   appended, log, instance>>

\* Variant of NextClaimMatch whose None arm moves the cursor to the newest
\* entry of the claims stream.
NextClaimMatchNoneAdvances(t) ==
    /\ pc[t] = "next_claim_match"
    /\ LET found == event[t][1]
           f == facade[t]
       IN  IF found # <<>>
           THEN /\ last_claim_id' = [last_claim_id EXCEPT ![f] = found[1].id]
                /\ ret' = [ret EXCEPT ![t] = Ok(<<RollupClaimFrom(found[1])>>)]
                /\ delivered' = [delivered EXCEPT ![f] =
                       Append(@, [instance |-> instance[f],
                                  claim |-> RollupClaimFrom(found[1])])]
           ELSE /\ ret' = [ret EXCEPT ![t] = Ok(<<>>)]
                /\ last_claim_id' = [last_claim_id EXCEPT ![f] = Len(claims)]
                /\ UNCHANGED delivered
    /\ event' = [event EXCEPT ![t] = <<>>]
    /\ cursor' = [cursor EXCEPT ![facade[t]] = NoTask]
    /\ pc' = [pc EXCEPT ![t] = "done"]
    /\ UNCHANGED <<inputs, claims, broker, facade, op, arg, status, peeked,
                   appended, log, instance>>

NextClaimMatch(t) ==
    /\ pc[t] = "next_claim_match"
    /\ LET found == event[t][1]
           f == facade[t]
       IN  IF found # <<>>
           THEN /\ last_claim_id' = [last_claim_id EXCEPT ![f] = found[1].id]
                /\ ret' = [ret EXCEPT ![t] = Ok(<<RollupClaimFrom(found[1])>>)]
                /\ delivered' = [delivered EXCEPT ![f] =
                       Append(@, [instance |-> instance[f],
                                  claim |-> RollupClaimFrom(found[1])])]
           ELSE /\ ret' = [ret EXCEPT ![t] = Ok(<<>>)]
                /\ UNCHANGED <<last_claim_id, delivered>>
    /\ event' = [event EXCEPT ![t] = <<>>]
    /\ cursor' = [cursor EXCEPT ![facade[t]] = NoTask]
    /\ pc' = [pc EXCEPT ![t] = "done"]
    /\ UNCHANGED <<inputs, claims, broker, facade, op, arg, status, peeked,
                   appended, log, instance>>

----------------------------------------------------------------------------
\* The caller takes the result; the operation's locals go out of scope.
Return(t) ==
    /\ pc[t] = "done"
    /\ pc' = [pc EXCEPT ![t] = "idle"]
    /\ op' = [op EXCEPT ![t] = "none"]
    /\ arg' = [arg EXCEPT ![t] = 0]
    /\ status' = [status EXCEPT ![t] = <<>>]
    /\ event' = [event EXCEPT ![t] = <<>>]
    /\ ret' = [ret EXCEPT ![t] = NoRet]
    /\ peeked' = [peeked EXCEPT ![t] = 0]
    /\ appended' = [appended EXCEPT ![t] = 0]
    /\ UNCHANGED <<inputs, claims, broker, cursor, last_claim_id, facade, log,
                   instance, delivered>>

\* Hash::new([i; HASH_SIZE]): the digest whose bytes are all i.
HashNew(i) == <<"hash", i>>

\* The execution layer appends the claim of the next epoch to the claims
\* stream (produce_claims / fixture.produce_claim in the tests), up to max
\* claims.
ProduceClaimUpTo(max) ==
    /\ Len(claims) < max
    /\ claims' = produce(claims, [epoch_index |-> Len(claims),
                                  claim |-> HashNew(Len(claims))])
    /\ UNCHANGED <<inputs, broker, cursor, last_claim_id, facade, pc, op, arg,
                   status, event, ret, peeked, appended, log, instance,
                   delivered>>

ProduceClaim == ProduceClaimUpTo(MaxClaims)

\* BrokerFacade::new in a new process, between two calls: the mutexes are
\* new and unlocked and the claim cursor is INITIAL_ID again.
\* Variant of Restart in which the new instance takes over the cursor of the
\* old one.
RestartKeepsCursor(f) ==
    /\ \E t \in Tasks : facade[t] = f
    /\ \A t \in Tasks : facade[t] = f => pc[t] = "idle"
    /\ instance[f] < MaxRestarts
    /\ instance' = [instance EXCEPT ![f] = @ + 1]
    /\ UNCHANGED <<inputs, claims, broker, cursor, facade, pc, op, arg, status,
                   event, ret, peeked, appended, log, delivered,
                   last_claim_id>>

Restart(f) ==
    /\ \E t \in Tasks : facade[t] = f
    /\ \A t \in Tasks : facade[t] = f => pc[t] = "idle"
    /\ instance[f] < MaxRestarts
    /\ instance' = [instance EXCEPT ![f] = @ + 1]
    /\ last_claim_id' = [last_claim_id EXCEPT ![f] = INITIAL_ID]
    /\ UNCHANGED <<inputs, claims, broker, cursor, facade, pc, op, arg, status,
                   event, ret, peeked, appended, log, delivered>>

\* The operations of running facades and the production of claims.  A new
\* process taking over (Restart) is part of NextRestart and NextClaims.
Next ==
    \/ \E t \in Tasks : CallStatus(t)
    \/ \E t \in Tasks : StatusLock(t)
    \/ \E t \in Tasks : StatusPeek(t)
    \/ \E t \in Tasks : CallEnqueueInput(t)
    \/ \E t \in Tasks : EnqueueLock(t)
    \/ \E t \in Tasks : EnqueuePeek(t)
    \/ \E t \in Tasks : EnqueueCheck(t)
    \/ \E t \in Tasks : EnqueueProduce(t)
    \/ \E t \in Tasks : CallFinishEpoch(t)
    \/ \E t \in Tasks : FinishLock(t)
    \/ \E t \in Tasks : FinishPeek(t)
    \/ \E t \in Tasks : FinishCheck(t)
    \/ \E t \in Tasks : FinishProduce(t)
    \/ \E t \in Tasks : CallNextClaim(t)
    \/ \E t \in Tasks : NextClaimLock(t)
    \/ \E t \in Tasks : ClaimLock(t)
    \/ \E t \in Tasks : ClaimConsume(t)
    \/ \E t \in Tasks : NextClaimMatch(t)
    \/ \E t \in Tasks : Return(t)
    \/ ProduceClaim

Spec == Init /\ [][Next]_vars

SpecSingle == InitSingle /\ [][Next]_vars

\* The operations on the inputs stream alone.  With one caller per facade
\* no lock is ever contended, so next_claim and the claims stream have no
\* influence on what these operations do.
NextWriters ==
    \/ \E t \in Tasks : CallStatus(t)
    \/ \E t \in Tasks : StatusLock(t)
    \/ \E t \in Tasks : StatusPeek(t)
    \/ \E t \in Tasks : CallEnqueueInput(t)
    \/ \E t \in Tasks : EnqueueLock(t)
    \/ \E t \in Tasks : EnqueuePeek(t)
    \/ \E t \in Tasks : EnqueueCheck(t)
    \/ \E t \in Tasks : EnqueueProduce(t)
    \/ \E t \in Tasks : CallFinishEpoch(t)
    \/ \E t \in Tasks : FinishLock(t)
    \/ \E t \in Tasks : FinishPeek(t)
    \/ \E t \in Tasks : FinishCheck(t)
    \/ \E t \in Tasks : FinishProduce(t)
    \/ \E t \in Tasks : Return(t)

SpecTwoFacades == InitTwoFacades /\ [][NextWriters]_vars

\* One facade as the only writer of the inputs stream, with status() calls
\* between and during the writes.
SpecWriters == InitSingle /\ [][NextWriters]_vars

\* The steps of caller t that wait for a lock, and those that wait for the
\* broker to answer or run code of the facade.
TaskLock(t) ==
    \/ StatusLock(t)
    \/ EnqueueLock(t)
    \/ FinishLock(t)
    \/ NextClaimLock(t)
    \/ ClaimLock(t)

TaskStep(t) ==
    \/ StatusPeek(t)
    \/ EnqueuePeek(t)
    \/ EnqueueCheck(t)
    \/ EnqueueProduce(t)
    \/ FinishPeek(t)
    \/ FinishCheck(t)
    \/ FinishProduce(t)
    \/ ClaimConsume(t)
    \/ NextClaimMatch(t)

\* The runtime polls every task that can go on, the broker answers every
\* request, and tokio's Mutex hands the lock to its waiters in turn, so a
\* caller that finds the lock free again and again gets it.
Fairness ==
    \A t \in Tasks : WF_vars(TaskStep(t)) /\ SF_vars(TaskLock(t))

\* The four operations of the facade called by two callers at any time;
\* the claims stream stays as it is, which takes no lock away from
\* next_claim.
NextLive ==
    \/ NextWriters
    \/ \E t \in Tasks : CallNextClaim(t)
    \/ \E t \in Tasks : NextClaimLock(t)
    \/ \E t \in Tasks : ClaimLock(t)
    \/ \E t \in Tasks : ClaimConsume(t)
    \/ \E t \in Tasks : NextClaimMatch(t)

\* The inputs stream after k enqueue_input calls of an earlier run.
RECURSIVE EarlierInputs(_)
EarlierInputs(k) ==
    IF k = 0 THEN <<>>
    ELSE LET before == EarlierInputs(k - 1)
         IN  produce(before, build_next_input(broker_status(before)))

\* A facade constructed on a stream that an earlier run has filled up to
\* two entries below the bound; its callers are idle and its locks free.
InitLive ==
    /\ inputs = EarlierInputs(MaxInputs - 2)
    /\ log = [i \in 1..(MaxInputs - 2) |->
                 [task |-> "earlier", facade |-> "f1",
                  op |-> "enqueue_input", arg |-> i - 1,
                  peeked |-> i - 1, instance |-> 0]]
    /\ claims = <<>>
    /\ broker = [f \in Facades |-> NoTask]
    /\ cursor = [f \in Facades |-> NoTask]
    /\ last_claim_id = [f \in Facades |-> INITIAL_ID]
    /\ facade = [t \in Tasks |-> "f1"]
    /\ pc = [t \in Tasks |-> "idle"]
    /\ op = [t \in Tasks |-> "none"]
    /\ arg = [t \in Tasks |-> 0]
    /\ status = [t \in Tasks |-> <<>>]
    /\ event = [t \in Tasks |-> <<>>]
    /\ ret = [t \in Tasks |-> NoRet]
    /\ peeked = [t \in Tasks |-> 0]
    /\ appended = [t \in Tasks |-> 0]
    /\ instance = [f \in Facades |-> 0]
    /\ delivered = [f \in Facades |-> <<>>]

SpecLive == InitLive /\ [][NextLive]_vars /\ Fairness

\* enqueue_input and finish_epoch calls on one facade whose process is
\* restarted between calls.
NextRestart ==
    \/ \E t \in Tasks : CallEnqueueInput(t)
    \/ \E t \in Tasks : EnqueueLock(t)
    \/ \E t \in Tasks : EnqueuePeek(t)
    \/ \E t \in Tasks : EnqueueCheck(t)
    \/ \E t \in Tasks : EnqueueProduce(t)
    \/ \E t \in Tasks : CallFinishEpoch(t)
    \/ \E t \in Tasks : FinishLock(t)
    \/ \E t \in Tasks : FinishPeek(t)
    \/ \E t \in Tasks : FinishCheck(t)
    \/ \E t \in Tasks : FinishProduce(t)
    \/ \E t \in Tasks : Return(t)
    \/ \E f \in Facades : Restart(f)

SpecRestart == InitSingle /\ [][NextRestart]_vars

\* next_claim against the production of claims, with status as the other
\* user of the connection and restarts of the process; the inputs stream
\* stays as it is.
NextClaims ==
    \/ \E t \in Tasks : CallStatus(t)
    \/ \E t \in Tasks : StatusLock(t)
    \/ \E t \in Tasks : StatusPeek(t)
    \/ \E t \in Tasks : CallNextClaim(t)
    \/ \E t \in Tasks : NextClaimLock(t)
    \/ \E t \in Tasks : ClaimLock(t)
    \/ \E t \in Tasks : ClaimConsume(t)
    \/ \E t \in Tasks : NextClaimMatch(t)
    \/ \E t \in Tasks : Return(t)
    \/ ProduceClaimUpTo(MaxDrain)
    \/ \E f \in Facades : Restart(f)

SpecClaims == InitSingle /\ [][NextClaims]_vars

\* An inputs stream written by others (fixture.produce_input_event in the
\* tests): any events, not only those the facade builds.
ForeignPayloads ==
    [parent_id : {INITIAL_ID},
     epoch_index : 0..1,
     inputs_sent_count : 0..MaxIndex,
     data : {[tag |-> "FinishEpoch"],
             [tag |-> "AdvanceStateInput",
              metadata |-> [epoch_index |-> 0, input_index |-> 0]]}]

ForeignStreams ==
    UNION {[1..n -> ForeignPayloads] : n \in 0..MaxForeign}

InitAnyStream ==
    /\ \E ps \in ForeignStreams :
           /\ inputs = [i \in 1..Len(ps) |-> [id |-> i, payload |-> ps[i]]]
           /\ log = [i \in 1..Len(ps) |->
                        [task |-> "fixture", facade |-> "none",
                         op |-> "produce_input_event", arg |-> 0,
                         peeked |-> i - 1, instance |-> 0]]
    /\ claims = <<>>
    /\ broker = [f \in Facades |-> NoTask]
    /\ cursor = [f \in Facades |-> NoTask]
    /\ last_claim_id = [f \in Facades |-> INITIAL_ID]
    /\ facade = [t \in Tasks |-> "f1"]
    /\ pc = [t \in Tasks |-> "idle"]
    /\ op = [t \in Tasks |-> "none"]
    /\ arg = [t \in Tasks |-> 0]
    /\ status = [t \in Tasks |-> <<>>]
    /\ event = [t \in Tasks |-> <<>>]
    /\ ret = [t \in Tasks |-> NoRet]
    /\ peeked = [t \in Tasks |-> 0]
    /\ appended = [t \in Tasks |-> 0]
    /\ instance = [f \in Facades |-> 0]
    /\ delivered = [f \in Facades |-> <<>>]

NextStatus ==
    \/ \E t \in Tasks : CallStatus(t)
    \/ \E t \in Tasks : StatusLock(t)
    \/ \E t \in Tasks : StatusPeek(t)
    \/ \E t \in Tasks : Return(t)

SpecAnyStream == InitAnyStream /\ [][NextStatus]_vars

----------------------------------------------------------------------------
\* Vocabulary of the properties.

\* inputs_sent_count at the tail of the first k entries of the inputs stream.
TailCount(k) == IF k = 0 THEN 0 ELSE inputs[k].payload.inputs_sent_count

IsAdvance(i) == inputs[i].payload.data.tag = "AdvanceStateInput"
IsFinish(i) == inputs[i].payload.data.tag = "FinishEpoch"

\* The first k entries were written by enqueue_input calls with
\* input_index 0, 1, ..., k-1.
EnqueuedInOrder(k) ==
    \A i \in 1..k : log[i].op = "enqueue_input" /\ log[i].arg = i - 1

StatusReturned(t) == op[t] = "status" /\ pc[t] = "done" /\ ret[t].tag = "Ok"

\* The call of t has peeked the stream and is past its sanity check.
PastGuard(t) ==
    \/ pc[t] \in {"enqueue_produce", "finish_produce", "panicked"}
    \/ /\ pc[t] = "done"
       /\ ret[t].tag \in {"Ok", "ProduceInputError", "ProduceFinishError"}

----------------------------------------------------------------------------
\* C1: with one facade as the only writer of an initially empty stream, a
\* status() that reads the stream after k successful enqueue_input calls
\* with input_index 0..k-1 (and nothing else) returns inputs_sent_count = k
\* and last_event_is_finish_epoch = false.
C1_StatusCountsEnqueuedInputs ==
    \A t \in Tasks :
        (StatusReturned(t) /\ EnqueuedInOrder(peeked[t]))
        => ret[t].val[1] = [inputs_sent_count |-> peeked[t],
                            last_event_is_finish_epoch |-> FALSE]

C1_Witness ==
    \E t \in Tasks :
        /\ StatusReturned(t)
        /\ peeked[t] = 3
        /\ EnqueuedInOrder(3)
        /\ ret[t].val[1].inputs_sent_count = 3

\* C2: an enqueue_input whose input_index differs from the inputs_sent_count
\* at the tail it peeked never gets past the sanity check: it panics.
C2_EnqueueMismatchPanics ==
    \A t \in Tasks :
        (op[t] = "enqueue_input" /\ PastGuard(t)
         /\ arg[t] # TailCount(peeked[t]))
        => (pc[t] = "panicked" /\ ret[t].tag = "Panic")

C2_Witness ==
    \E t \in Tasks :
        /\ op[t] = "enqueue_input"
        /\ pc[t] = "panicked"
        /\ peeked[t] = 2
        /\ IsFinish(2)
        /\ arg[t] = 0
        /\ TailCount(2) = 1

\* C3: a finish_epoch whose inputs_sent_count argument differs from the
\* inputs_sent_count at the tail it peeked never gets past the sanity check:
\* it panics.
C3_FinishMismatchPanics ==
    \A t \in Tasks :
        (op[t] = "finish_epoch" /\ PastGuard(t)
         /\ arg[t] # TailCount(peeked[t]))
        => (pc[t] = "panicked" /\ ret[t].tag = "Panic")

C3_Witness ==
    \E t \in Tasks :
        /\ op[t] = "finish_epoch"
        /\ pc[t] = "panicked"
        /\ peeked[t] = 0
        /\ arg[t] = 1
        /\ inputs = <<>>

\* C4: a call whose sanity check fired has appended no event.
C4_GuardFiresBeforePublication ==
    \A t \in Tasks : pc[t] = "panicked" => appended[t] = 0

C4_Witness ==
    \E t \in Tasks :
        /\ pc[t] = "panicked"
        /\ appended[t] = 0
        /\ Len(inputs) = peeked[t]
        /\ Len(inputs) > 0

----------------------------------------------------------------------------
\* The id of the entry before position i (INITIAL_ID before the first).
PrevId(i) == IF i = 1 THEN INITIAL_ID ELSE inputs[i - 1].id

\* Entry i continues the entry right before it.
ContinuesPrevious(i) ==
    /\ inputs[i].payload.parent_id = PrevId(i)
    /\ inputs[i].payload.inputs_sent_count =
           TailCount(i - 1) + (IF IsAdvance(i) THEN 1 ELSE 0)

DuplicateCount ==
    \E i, j \in 1..Len(inputs) :
        /\ i < j
        /\ IsAdvance(i) /\ IsAdvance(j)
        /\ inputs[i].payload.inputs_sent_count =
               inputs[j].payload.inputs_sent_count

BrokenChain ==
    \E i \in 1..Len(inputs) : inputs[i].payload.parent_id # PrevId(i)

\* Holding the Mutex<Broker> inside status, enqueue_input or finish_epoch.
InConnectionOp(t) ==
    pc[t] \in {"status_peek", "enqueue_peek", "enqueue_check",
               "enqueue_produce", "finish_peek", "finish_check",
               "finish_produce"}

InWriteSection(t) ==
    pc[t] \in {"enqueue_peek", "enqueue_check", "enqueue_produce",
               "finish_peek", "finish_check", "finish_produce"}

\* C5 as stated: whenever the stream holds a wrongly sequenced entry (two
\* AdvanceInput events with the same inputs_sent_count, or a parent_id that
\* is not the id of the entry before), a sanity check has fired.
C5_RaceTurnsFatal ==
    (DuplicateCount \/ BrokenChain) => \E t \in Tasks : pc[t] = "panicked"

\* C5 amended: the sanity check compares the caller's expectation with the
\* tail the call itself peeked, so only an entry appended after another
\* writer's append slipped in between its writer's peek and its append can be
\* wrongly linked; an entry whose writer peeked the entry right before it
\* carries that entry's id as parent_id and continues its count.
C5_OnlyStalePeekBreaksSequence ==
    \A i \in 1..Len(inputs) : log[i].peeked = i - 1 => ContinuesPrevious(i)

C5_Witness ==
    /\ Len(inputs) = 2
    /\ log[1].facade # log[2].facade
    /\ log[2].peeked = 0
    /\ DuplicateCount /\ BrokenChain
    /\ \A t \in Tasks : pc[t] # "panicked"

\* C6: on one facade, between a write operation's peek and its append no
\* other operation of the facade holds the connection, and every event is
\* appended right after the entry its writer peeked.
C6_WritesAtomicWithPeek ==
    /\ \A i \in 1..Len(inputs) : log[i].peeked = i - 1
    /\ \A t \in Tasks :
           pc[t] \in {"enqueue_check", "enqueue_produce",
                      "finish_check", "finish_produce"}
           => /\ peeked[t] = Len(inputs)
              /\ status[t] = <<broker_status(inputs)>>
    /\ \A t, u \in Tasks :
           (t # u /\ facade[t] = facade[u] /\ InWriteSection(t))
           => ~InConnectionOp(u)

C6_Witness ==
    \E t, u \in Tasks :
        /\ t # u
        /\ pc[t] = "enqueue_produce"
        /\ pc[u] \in {"enqueue_lock", "finish_lock"}
        /\ broker[facade[t]] = t
        /\ Len(inputs) = 1
        /\ log[1].task = u

\* C7 as stated: between next_claim's read of the claims stream and its
\* cursor update, no status, enqueue_input or finish_epoch of the same facade
\* is running on the connection.
C7_NextClaimHoldsConnection ==
    \A t, u \in Tasks :
        (pc[t] = "next_claim_match" /\ u # t /\ facade[u] = facade[t])
        => ~InConnectionOp(u)

\* C7 amended: next_claim holds the last_claim_id lock from before the read
\* to after the cursor update, and the connection lock only while claim()
\* reads the stream; the cursor it updates is the one it read from.
C7_CursorLockSpansNextClaim ==
    \A t \in Tasks :
        /\ pc[t] \in {"claim_lock", "claim_consume", "next_claim_match"}
           => cursor[facade[t]] = t
        /\ pc[t] = "claim_consume" => broker[facade[t]] = t
        /\ pc[t] \in {"claim_lock", "next_claim_match"}
           => broker[facade[t]] # t
        /\ (pc[t] = "next_claim_match" /\ event[t][1] # <<>>)
           => event[t][1] =
                  consume_nonblocking(claims, last_claim_id[facade[t]])

C7_Witness ==
    \E t, u \in Tasks :
        /\ pc[t] = "next_claim_match"
        /\ event[t][1] # <<>>
        /\ facade[u] = facade[t]
        /\ pc[u] = "enqueue_produce"
        /\ broker[facade[t]] = u

----------------------------------------------------------------------------
\* C8: with one facade as the only writer of an initially empty stream,
\* every entry's parent_id is the id the stream gave to the entry before it,
\* and the first entry's parent_id is INITIAL_ID.
C8_ParentIdChain ==
    \A i \in 1..Len(inputs) : inputs[i].payload.parent_id = PrevId(i)

C8_Witness ==
    /\ Len(inputs) = 3
    /\ IsAdvance(1) /\ IsFinish(2) /\ IsAdvance(3)
    /\ inputs[1].payload.parent_id = INITIAL_ID
    /\ inputs[3].payload.parent_id = inputs[2].id

\* C9: after a FinishEpoch entry, an enqueue_input whose input_index is the
\* inputs_sent_count from before the finish passes the sanity check, and the
\* event it appends has the FinishEpoch's epoch_index plus one.
C9_EnqueueAfterFinishOpensNextEpoch ==
    /\ \A t \in Tasks :
           (/\ op[t] = "enqueue_input"
            /\ PastGuard(t)
            /\ peeked[t] >= 1
            /\ IsFinish(peeked[t])
            /\ arg[t] = TailCount(peeked[t] - 1))
           => pc[t] # "panicked"
    /\ \A i \in 2..Len(inputs) :
           (IsFinish(i - 1) /\ IsAdvance(i))
           => /\ log[i].arg = TailCount(i - 2)
              /\ inputs[i].payload.epoch_index =
                     inputs[i - 1].payload.epoch_index + 1

C9_Witness ==
    /\ Len(inputs) = 3
    /\ IsAdvance(1) /\ IsFinish(2) /\ IsAdvance(3)
    /\ log[3].arg = 1
    /\ inputs[2].payload.epoch_index = 0
    /\ inputs[3].payload.epoch_index = 1
    /\ inputs[3].payload.inputs_sent_count = 2

\* C10: a status() that reads the stream right after a successful
\* finish_epoch (the FinishEpoch entry is the tail it peeks, and it was
\* appended right after the entry its writer peeked) returns
\* last_event_is_finish_epoch = true and the inputs_sent_count of the stream
\* as it was before the finish_epoch.
C10_StatusAfterFinishEpoch ==
    \A t \in Tasks :
        (/\ StatusReturned(t)
         /\ peeked[t] >= 1
         /\ log[peeked[t]].op = "finish_epoch"
         /\ log[peeked[t]].peeked = peeked[t] - 1)
        => ret[t].val[1] =
               [inputs_sent_count |-> TailCount(peeked[t] - 1),
                last_event_is_finish_epoch |-> TRUE]

C10_Witness ==
    \E t \in Tasks :
        /\ StatusReturned(t)
        /\ peeked[t] = 3
        /\ Len(inputs) = 3
        /\ log[3].op = "finish_epoch"
        /\ ret[t].val[1] = [inputs_sent_count |-> 2,
                            last_event_is_finish_epoch |-> TRUE]

----------------------------------------------------------------------------
\* C11: status() returns the projection of the latest entry of the inputs
\* stream, whoever wrote that entry: the default {0, false} on an empty
\* stream, otherwise the entry's inputs_sent_count and whether the entry is
\* a FinishEpoch.  Earlier entries and the caller play no part.
C11_StatusProjectsLatestEntry ==
    \A t \in Tasks :
        StatusReturned(t)
        => ret[t].val[1] =
               IF peeked[t] = 0
               THEN [inputs_sent_count |-> 0,
                     last_event_is_finish_epoch |-> FALSE]
               ELSE [inputs_sent_count |->
                         inputs[peeked[t]].payload.inputs_sent_count,
                     last_event_is_finish_epoch |-> IsFinish(peeked[t])]

\* A FinishEpoch tail carrying a count that no entry before it accounts for.
C11_Witness ==
    \E t \in Tasks :
        /\ StatusReturned(t)
        /\ Len(inputs) = 2
        /\ log[2].task = "fixture"
        /\ IsAdvance(1) /\ TailCount(1) = 0
        /\ IsFinish(2) /\ TailCount(2) = 2
        /\ ret[t].val[1] = [inputs_sent_count |-> 2,
                            last_event_is_finish_epoch |-> TRUE]

----------------------------------------------------------------------------
\* The claims that the n-th instance of facade f has returned, in the order
\* of its successful next_claim calls.
DeliveredBy(f, n) ==
    LET own == SelectSeq(delivered[f], LAMBDA d : d.instance = n)
    IN  [k \in 1..Len(own) |-> own[k].claim]

NextClaimReturned(t) ==
    op[t] = "next_claim" /\ pc[t] = "done" /\ ret[t].tag = "Ok"

\* C12: the claims returned by the successful next_claim calls of one facade
\* instance are the first claims of the claims stream, in production order,
\* each once and with number equal to its epoch_index; and a call returns
\* None only when every claim that was in the stream when it read had
\* already been returned.
C12_ClaimsDeliveredInOrder ==
    /\ \A f \in Facades : \A n \in 0..instance[f] :
           LET d == DeliveredBy(f, n)
           IN  /\ Len(d) <= Len(claims)
               /\ \A k \in 1..Len(d) :
                      d[k] = [hash |-> claims[k].payload.claim,
                              number |-> claims[k].payload.epoch_index]
    /\ \A t \in Tasks :
           NextClaimReturned(t)
           => LET d == DeliveredBy(facade[t], instance[facade[t]])
              IN  IF ret[t].val = <<>>
                  THEN Len(d) >= peeked[t]
                  ELSE \E k \in 1..Len(d) :
                           k <= peeked[t] /\ d[k] = ret[t].val[1]

\* Three claims produced while they were being drained, all three returned
\* in order, and a further call that found nothing.
C12_Witness ==
    \E t \in Tasks :
        /\ NextClaimReturned(t)
        /\ ret[t].val = <<>>
        /\ Len(claims) = 3
        /\ peeked[t] = 3
        /\ DeliveredBy(facade[t], 0) =
               <<[hash |-> HashNew(0), number |-> 0],
                 [hash |-> HashNew(1), number |-> 1],
                 [hash |-> HashNew(2), number |-> 2]>>

----------------------------------------------------------------------------
\* No entry of the claims stream lies strictly after the cursor of facade f.
NothingAfterCursor(f) ==
    \A i \in 1..Len(claims) : claims[i].id <= last_claim_id[f]

\* The step of caller t that reads the claims stream / that matches on what
\* was read.
ReadsClaims(t) == pc[t] = "claim_consume" /\ pc'[t] = "next_claim_match"
MatchesClaim(t) == pc[t] = "next_claim_match" /\ pc'[t] = "done"

\* C13: a next_claim that reads the claims stream when no entry lies strictly
\* after the cursor (the empty stream included) finds nothing, returns
\* Ok(None) and leaves last_claim_id as it was; a read that does find
\* something finds the entry right after the cursor, whatever number of
\* calls found nothing before.
C13_NoneLeavesCursor ==
    [][\A t \in Tasks :
          LET f == facade[t]
          IN  /\ ReadsClaims(t)
                  => IF NothingAfterCursor(f)
                     THEN event'[t][1] = <<>>
                     ELSE /\ event'[t][1] # <<>>
                          /\ event'[t][1][1] = claims[last_claim_id[f] + 1]
              /\ (MatchesClaim(t) /\ event[t][1] = <<>>)
                  => /\ ret'[t] = Ok(<<>>)
                     /\ last_claim_id' = last_claim_id
                     /\ delivered' = delivered]_vars

\* A call found nothing after the first claim had been returned; a second
\* claim was produced afterwards and the cursor still points at the first.
C13_Witness ==
    \E t \in Tasks :
        /\ NextClaimReturned(t)
        /\ ret[t].val = <<>>
        /\ peeked[t] = 1
        /\ last_claim_id[facade[t]] = 1
        /\ Len(claims) = 2

----------------------------------------------------------------------------
\* The read of the claims stream by caller t fails.
ReadOfClaimsFails(t) == pc[t] = "claim_consume" /\ pc'[t] = "done"

\* C14: a next_claim whose read of the claims stream fails returns
\* ConsumeClaimError and changes neither last_claim_id nor what has been
\* returned; at every moment the cursor of the running instance counts
\* exactly the claims that instance has returned, so the entry a failed read
\* was after is the one the next successful read finds.
C14_FailedReadSkipsNothing ==
    /\ [](\A f \in Facades :
             last_claim_id[f] = Len(DeliveredBy(f, instance[f])))
    /\ [][\A t \in Tasks :
             ReadOfClaimsFails(t)
             => /\ ret'[t] = Err("ConsumeClaimError")
                /\ last_claim_id' = last_claim_id
                /\ delivered' = delivered]_vars

\* One caller's read failed while the first claim was waiting; the other
\* caller's call returned that claim.
C14_Witness ==
    \E t, u \in Tasks :
        /\ op[t] = "next_claim" /\ pc[t] = "done"
        /\ ret[t] = Err("ConsumeClaimError")
        /\ NextClaimReturned(u)
        /\ ret[u].val = <<[hash |-> HashNew(0), number |-> 0]>>
        /\ DeliveredBy(facade[t], 0) = <<[hash |-> HashNew(0), number |-> 0]>>
        /\ last_claim_id[facade[t]] = 1

----------------------------------------------------------------------------
\* The error with which a write operation reports a failed append.
ProduceErrorOf(o) ==
    IF o = "enqueue_input" THEN "ProduceInputError" ELSE "ProduceFinishError"

\* C15: a call of enqueue_input or finish_epoch appends at most one event;
\* it returns Ok after exactly one append, and a failed peek
\* (PeekInputError) or a failed append (ProduceInputError for enqueue_input,
\* ProduceFinishError for finish_epoch) is returned as it is, with nothing
\* appended by the call.
C15_WriteErrorsNotRetried ==
    \A t \in Tasks :
        op[t] \in WriteOps
        => /\ appended[t] <= 1
           /\ pc[t] = "done"
               => /\ ret[t].tag \in {"Ok", "PeekInputError",
                                     ProduceErrorOf(op[t])}
                  /\ appended[t] = (IF ret[t].tag = "Ok" THEN 1 ELSE 0)
           /\ pc[t] # "done" => appended[t] = 0

\* A finish_epoch whose append failed after a good peek and a passed check,
\* and the stream is still as the call peeked it.
C15_Witness ==
    \E t \in Tasks :
        /\ op[t] = "finish_epoch"
        /\ pc[t] = "done"
        /\ ret[t] = Err("ProduceFinishError")
        /\ appended[t] = 0
        /\ peeked[t] = 1
        /\ Len(inputs) = 1

----------------------------------------------------------------------------
\* C16: along the inputs stream written through one facade, an
\* AdvanceStateInput entry carries the inputs_sent_count of the entry before
\* it plus 1 (0 before the first entry) and a FinishEpoch entry carries it
\* unchanged; and of two status() results the one that read the longer
\* stream never reports the smaller count, nor does any result exceed the
\* count at the present tail.
C16_CountNeverDecreases ==
    /\ \A i \in 1..Len(inputs) :
           /\ IsAdvance(i) => TailCount(i) = TailCount(i - 1) + 1
           /\ IsFinish(i) => TailCount(i) = TailCount(i - 1)
    /\ \A t \in Tasks :
           StatusReturned(t)
           => /\ ret[t].val[1].inputs_sent_count <= TailCount(Len(inputs))
              /\ \A u \in Tasks :
                     (StatusReturned(u) /\ peeked[t] <= peeked[u])
                     => ret[t].val[1].inputs_sent_count <=
                            ret[u].val[1].inputs_sent_count

\* One status() read the stream after its first input, the other after a
\* FinishEpoch and a second input had followed.
C16_Witness ==
    \E t, u \in Tasks :
        /\ StatusReturned(t) /\ StatusReturned(u)
        /\ peeked[t] = 1 /\ peeked[u] = 3
        /\ IsAdvance(1) /\ IsFinish(2) /\ IsAdvance(3)
        /\ TailCount(2) = 1
        /\ ret[t].val[1].inputs_sent_count = 1
        /\ ret[u].val[1].inputs_sent_count = 2

----------------------------------------------------------------------------
\* The epoch that the entry after the first k entries belongs to, read off
\* entry k alone.
EpochAfter(k) ==
    IF k = 0 THEN 0
    ELSE inputs[k].payload.epoch_index + (IF IsFinish(k) THEN 1 ELSE 0)

\* C17: whichever instance of the facade wrote it, every entry of the inputs
\* stream is the one that its operation builds from the entry right before
\* it (parent_id, epoch_index, inputs_sent_count, kind), and whichever
\* instance runs it, a call gets past the sanity check exactly when its
\* argument is the inputs_sent_count at the tail it peeked.  Nothing in
\* either statement depends on the instance, so a restart between two calls
\* changes neither the stream nor the outcome of any guard.
C17_RestartInvisibleInStream ==
    /\ \A i \in 1..Len(inputs) :
           /\ log[i].peeked = i - 1
           /\ inputs[i].payload.parent_id = PrevId(i)
           /\ inputs[i].payload.epoch_index = EpochAfter(i - 1)
           /\ IF log[i].op = "enqueue_input"
              THEN /\ IsAdvance(i)
                   /\ TailCount(i) = TailCount(i - 1) + 1
                   /\ log[i].arg = TailCount(i - 1)
              ELSE /\ IsFinish(i)
                   /\ TailCount(i) = TailCount(i - 1)
                   /\ log[i].arg = TailCount(i - 1)
    /\ \A t \in Tasks :
           (op[t] \in WriteOps /\ PastGuard(t))
           => (pc[t] = "panicked" <=> arg[t] # TailCount(peeked[t]))

\* The first input was written before the restart and the second after it,
\* and a call of the new instance that claimed the stream was still empty
\* was stopped by the sanity check.
C17_Witness ==
    \E t \in Tasks :
        /\ Len(inputs) = 2
        /\ log[1].instance = 0 /\ log[2].instance = 1
        /\ IsAdvance(1) /\ IsAdvance(2) /\ TailCount(2) = 2
        /\ instance[facade[t]] = 1
        /\ op[t] = "enqueue_input"
        /\ pc[t] = "panicked"
        /\ peeked[t] = 2
        /\ arg[t] = 0

----------------------------------------------------------------------------
\* C18: while the same instance of a facade runs, a change of its
\* last_claim_id sets it to the id of an entry of the claims stream that
\* lies strictly after the old value; a new instance starts at INITIAL_ID
\* whatever the old instance had consumed; and the first claim an instance
\* returns is the first claim of the stream.
C18_CursorForwardAndNotPersisted ==
    /\ [][\A f \in Facades :
             IF instance'[f] = instance[f]
             THEN last_claim_id'[f] # last_claim_id[f]
                  => /\ last_claim_id'[f] > last_claim_id[f]
                     /\ \E i \in 1..Len(claims) :
                            claims[i].id = last_claim_id'[f]
             ELSE last_claim_id'[f] = INITIAL_ID]_vars
    /\ [](\A f \in Facades : \A n \in 0..instance[f] :
             DeliveredBy(f, n) # <<>>
             => DeliveredBy(f, n)[1] =
                    [hash |-> claims[1].payload.claim,
                     number |-> claims[1].payload.epoch_index])

\* The first instance had consumed two claims; the instance that replaced it
\* got the first claim again.
C18_Witness ==
    \E t \in Tasks :
        /\ instance[facade[t]] = 1
        /\ Len(DeliveredBy(facade[t], 0)) = 2
        /\ DeliveredBy(facade[t], 1) = <<[hash |-> HashNew(0), number |-> 0]>>
        /\ NextClaimReturned(t)
        /\ ret[t].val = <<[hash |-> HashNew(0), number |-> 0]>>
        /\ last_claim_id[facade[t]] = 1

----------------------------------------------------------------------------
\* The FinishEpoch entries before position i.
FinishesBefore(i) == {j \in 1..(i - 1) : IsFinish(j)}

\* C19: a finish_epoch whose argument is the inputs_sent_count at the tail
\* it peeked gets past the sanity check, whether that tail is an input, a
\* FinishEpoch or the empty stream; the entry it appends is a FinishEpoch
\* with the same count and with epoch_index 0 if it is the first FinishEpoch
\* of the stream, otherwise one more than the FinishEpoch before it.
C19_FinishEpochAlwaysAdmitted ==
    /\ \A t \in Tasks :
           (/\ op[t] = "finish_epoch"
            /\ PastGuard(t)
            /\ arg[t] = TailCount(peeked[t]))
           => pc[t] # "panicked"
    /\ \A i \in 1..Len(inputs) :
           log[i].op = "finish_epoch"
           => /\ IsFinish(i)
              /\ TailCount(i) = log[i].arg
              /\ inputs[i].payload.epoch_index =
                     IF FinishesBefore(i) = {} THEN 0
                     ELSE LET last == CHOOSE j \in FinishesBefore(i) :
                                         \A k \in FinishesBefore(i) : k <= j
                          IN  inputs[last].payload.epoch_index + 1

\* Three finish_epoch(0) calls in a row on the empty stream.
C19_Witness ==
    /\ Len(inputs) = 3
    /\ \A i \in 1..3 :
           /\ log[i].op = "finish_epoch"
           /\ log[i].arg = 0
           /\ IsFinish(i)
           /\ inputs[i].payload.epoch_index = i - 1
           /\ TailCount(i) = 0

\* C20: with one facade as the only writer of a stream that started empty,
\* the epoch_index of every entry is the number of FinishEpoch entries
\* before it; so it never decreases from an entry to the next, and it grows
\* by 1 exactly from a FinishEpoch entry to its successor.
C20_EpochIndexCountsFinishes ==
    /\ \A i \in 1..Len(inputs) :
           inputs[i].payload.epoch_index = Cardinality(FinishesBefore(i))
    /\ \A i \in 2..Len(inputs) :
           inputs[i].payload.epoch_index =
               inputs[i - 1].payload.epoch_index
                   + (IF IsFinish(i - 1) THEN 1 ELSE 0)

\* An empty first epoch, an input in the second epoch, and its FinishEpoch.
C20_Witness ==
    /\ Len(inputs) = 3
    /\ IsFinish(1) /\ IsAdvance(2) /\ IsFinish(3)
    /\ inputs[1].payload.epoch_index = 0
    /\ inputs[2].payload.epoch_index = 1
    /\ inputs[3].payload.epoch_index = 1
    /\ TailCount(3) = 1

----------------------------------------------------------------------------
\* Between taking the last_claim_id lock and updating the cursor.
InCursorSection(t) ==
    pc[t] \in {"claim_lock", "claim_consume", "next_claim_match"}

\* The call of t has returned a claim.
GotClaim(t) == NextClaimReturned(t) /\ ret[t].val # <<>>

\* C21: of the callers of next_claim on one facade at most one is between
\* reading last_claim_id and updating it; two callers never hold the same
\* claim as their result; and the claims the running instance has handed
\* out, to whichever caller, are the entries 0, 1, 2, ... of the claims
\* stream without a repetition and without a gap.
C21_ConcurrentCallersShareNoClaim ==
    /\ \A t, u \in Tasks :
           (t # u /\ facade[t] = facade[u])
           => /\ ~(InCursorSection(t) /\ InCursorSection(u))
              /\ (GotClaim(t) /\ GotClaim(u))
                  => ret[t].val[1] # ret[u].val[1]
    /\ \A f \in Facades :
           LET d == DeliveredBy(f, instance[f])
           IN  /\ Len(d) <= Len(claims)
               /\ \A k \in 1..Len(d) : d[k].number = k - 1
               /\ \A i, j \in 1..Len(d) : i # j => d[i] # d[j]

\* Both callers hold a result that neither has handed back yet: one the
\* first claim, the other the second, while a third claim waits.
C21_Witness ==
    \E t, u \in Tasks :
        /\ t # u /\ facade[t] = facade[u]
        /\ GotClaim(t) /\ GotClaim(u)
        /\ ret[t].val[1] = [hash |-> HashNew(0), number |-> 0]
        /\ ret[u].val[1] = [hash |-> HashNew(1), number |-> 1]
        /\ peeked[t] = 2
        /\ Len(claims) = 3
        /\ last_claim_id[facade[t]] = 2

----------------------------------------------------------------------------
\* The call of t has started and has not come to its end.
Started(t) == pc[t] \notin {"idle", "done", "panicked"}

HoldsNoLock(t) == broker[facade[t]] # t /\ cursor[facade[t]] # t

\* The call of t has returned, failed or panicked, and holds no lock.
Completed(t) == pc[t] \in {"done", "panicked"} /\ HoldsNoLock(t)

\* C22: a caller waits for the last_claim_id lock only while it holds no
\* lock, a caller outside a call holds none, and with fair scheduling and a
\* broker that answers, every started call of status, enqueue_input,
\* finish_epoch or next_claim comes to its end with its locks released.
C22_NoDeadlock ==
    /\ [](\A t \in Tasks :
             /\ pc[t] = "next_claim_lock" => HoldsNoLock(t)
             /\ ~Started(t) => HoldsNoLock(t))
    /\ \A t \in Tasks : Started(t) ~> Completed(t)

\* A next_claim that holds the last_claim_id lock waits for the connection
\* while a status() holds it.
C22_Witness ==
    \E t, u \in Tasks :
        /\ facade[t] = facade[u]
        /\ pc[t] = "claim_lock"
        /\ cursor[facade[t]] = t
        /\ pc[u] = "status_peek"
        /\ broker[facade[t]] = u

====
